---- MODULE Spec2Model ----
(***************************************************************************)
(* Model of backend.py: the /chat handler (keyword classification, task    *)
(* construction, crew kickoff, insert_many of the exchange), and the       *)
(* history GET / DELETE handlers over the "message" collection.            *)
(*                                                                         *)
(* Text is modelled as a sequence of code points, each a one-character     *)
(* string, so that str.lower() (Unicode lower-casing, which may change the *)
(* length of a string) and the substring test `keyword in user_input` are  *)
(* computed rather than assumed.                                           *)
(*                                                                         *)
(* The handlers are coroutines on one event loop and pymongo calls are     *)
(* blocking, so the only suspension point of chat() is the await of        *)
(* crew.kickoff_async(); everything before it is one step and everything   *)
(* after it is one step.                                                   *)
(***************************************************************************)
EXTENDS Integers, Sequences, FiniteSets, TLC

----------------------------------------------------------------------------
(* Bounds *)

MaxReq == 2          \* number of /chat requests in a behaviour
MaxFrags == 2        \* fragments concatenated into a classified message

Requests == 1..MaxReq
Users == {"u1", "u2"}
BotTexts == { <<"T","1">>, <<"T","2">> }     \* values of response.raw

----------------------------------------------------------------------------
(* Text helpers *)

\* A character is a one-character string.  The ASCII characters are written
\* as they are; a code point outside ASCII, and the back-quote, is written
\* by its name: "U+212A" is the Kelvin sign, "U+0060" the back-quote.

UpperChars ==
    <<"A","B","C","D","E","F","G","H","I","J","K","L","M",
      "N","O","P","Q","R","S","T","U","V","W","X","Y","Z">>

LowerChars ==
    <<"a","b","c","d","e","f","g","h","i","j","k","l","m",
      "n","o","p","q","r","s","t","u","v","w","x","y","z">>

HexDigits ==
    <<"0","1","2","3","4","5","6","7","8","9","A","B","C","D","E","F">>

RECURSIVE Hex(_)
Hex(n) ==
    IF n < 16 THEN HexDigits[n + 1]
    ELSE Hex(n \div 16) \o HexDigits[(n % 16) + 1]

\* the character with code point n, for the code points of the tables below
CodePoint(n) ==
    IF n \in 65..90 THEN UpperChars[n - 64]
    ELSE IF n \in 97..122 THEN LowerChars[n - 96]
    ELSE IF n = 39 THEN "'"
    ELSE IF n = 46 THEN "."
    ELSE IF n = 58 THEN ":"
    ELSE IF n = 94 THEN "^"
    ELSE "U+" \o (IF n < 16 THEN "000" ELSE IF n < 256 THEN "00"
                  ELSE IF n < 4096 THEN "0" ELSE "") \o Hex(n)

\* the characters of the code point ranges <<first, last>> of rs
InRanges(rs) ==
    UNION { { CodePoint(n) : n \in rs[i][1]..rs[i][2] } : i \in 1..Len(rs) }

\* str.lower() of the code points that it changes into one other code
\* point, as <<first, last, step, delta>>: every step-th code point n from
\* first to last becomes n + delta (Unicode 14.0.0, the data of the
\* interpreter)
LowerRules ==
    << <<65,90,1,32>>, <<192,214,1,32>>, <<216,222,1,32>>, <<256,302,2,1>>,
      <<306,310,2,1>>, <<313,327,2,1>>, <<330,374,2,1>>, <<376,376,1,-121>>,
      <<377,381,2,1>>, <<385,385,1,210>>, <<386,388,2,1>>, <<390,390,1,206>>,
      <<391,391,1,1>>, <<393,394,1,205>>, <<395,395,1,1>>, <<398,398,1,79>>,
      <<399,399,1,202>>, <<400,400,1,203>>, <<401,401,1,1>>, <<403,403,1,205>>,
      <<404,404,1,207>>, <<406,406,1,211>>, <<407,407,1,209>>, <<408,408,1,1>>,
      <<412,412,1,211>>, <<413,413,1,213>>, <<415,415,1,214>>, <<416,420,2,1>>,
      <<422,422,1,218>>, <<423,423,1,1>>, <<425,425,1,218>>, <<428,428,1,1>>,
      <<430,430,1,218>>, <<431,431,1,1>>, <<433,434,1,217>>, <<435,437,2,1>>,
      <<439,439,1,219>>, <<440,440,1,1>>, <<444,444,1,1>>, <<452,452,1,2>>,
      <<453,453,1,1>>, <<455,455,1,2>>, <<456,456,1,1>>, <<458,458,1,2>>,
      <<459,475,2,1>>, <<478,494,2,1>>, <<497,497,1,2>>, <<498,500,2,1>>,
      <<502,502,1,-97>>, <<503,503,1,-56>>, <<504,542,2,1>>, <<544,544,1,-130>>,
      <<546,562,2,1>>, <<570,570,1,10795>>, <<571,571,1,1>>, <<573,573,1,-163>>,
      <<574,574,1,10792>>, <<577,577,1,1>>, <<579,579,1,-195>>, <<580,580,1,69>>,
      <<581,581,1,71>>, <<582,590,2,1>>, <<880,882,2,1>>, <<886,886,1,1>>,
      <<895,895,1,116>>, <<902,902,1,38>>, <<904,906,1,37>>, <<908,908,1,64>>,
      <<910,911,1,63>>, <<913,929,1,32>>, <<931,939,1,32>>, <<975,975,1,8>>,
      <<984,1006,2,1>>, <<1012,1012,1,-60>>, <<1015,1015,1,1>>, <<1017,1017,1,-7>>,
      <<1018,1018,1,1>>, <<1021,1023,1,-130>>, <<1024,1039,1,80>>, <<1040,1071,1,32>>,
      <<1120,1152,2,1>>, <<1162,1214,2,1>>, <<1216,1216,1,15>>, <<1217,1229,2,1>>,
      <<1232,1326,2,1>>, <<1329,1366,1,48>>, <<4256,4293,1,7264>>, <<4295,4295,1,7264>>,
      <<4301,4301,1,7264>>, <<5024,5103,1,38864>>, <<5104,5109,1,8>>, <<7312,7354,1,-3008>>,
      <<7357,7359,1,-3008>>, <<7680,7828,2,1>>, <<7838,7838,1,-7615>>, <<7840,7934,2,1>>,
      <<7944,7951,1,-8>>, <<7960,7965,1,-8>>, <<7976,7983,1,-8>>, <<7992,7999,1,-8>>,
      <<8008,8013,1,-8>>, <<8025,8031,2,-8>>, <<8040,8047,1,-8>>, <<8072,8079,1,-8>>,
      <<8088,8095,1,-8>>, <<8104,8111,1,-8>>, <<8120,8121,1,-8>>, <<8122,8123,1,-74>>,
      <<8124,8124,1,-9>>, <<8136,8139,1,-86>>, <<8140,8140,1,-9>>, <<8152,8153,1,-8>>,
      <<8154,8155,1,-100>>, <<8168,8169,1,-8>>, <<8170,8171,1,-112>>, <<8172,8172,1,-7>>,
      <<8184,8185,1,-128>>, <<8186,8187,1,-126>>, <<8188,8188,1,-9>>, <<8486,8486,1,-7517>>,
      <<8490,8490,1,-8383>>, <<8491,8491,1,-8262>>, <<8498,8498,1,28>>, <<8544,8559,1,16>>,
      <<8579,8579,1,1>>, <<9398,9423,1,26>>, <<11264,11311,1,48>>, <<11360,11360,1,1>>,
      <<11362,11362,1,-10743>>, <<11363,11363,1,-3814>>, <<11364,11364,1,-10727>>, <<11367,11371,2,1>>,
      <<11373,11373,1,-10780>>, <<11374,11374,1,-10749>>, <<11375,11375,1,-10783>>, <<11376,11376,1,-10782>>,
      <<11378,11378,1,1>>, <<11381,11381,1,1>>, <<11390,11391,1,-10815>>, <<11392,11490,2,1>>,
      <<11499,11501,2,1>>, <<11506,11506,1,1>>, <<42560,42604,2,1>>, <<42624,42650,2,1>>,
      <<42786,42798,2,1>>, <<42802,42862,2,1>>, <<42873,42875,2,1>>, <<42877,42877,1,-35332>>,
      <<42878,42886,2,1>>, <<42891,42891,1,1>>, <<42893,42893,1,-42280>>, <<42896,42898,2,1>>,
      <<42902,42920,2,1>>, <<42922,42922,1,-42308>>, <<42923,42923,1,-42319>>, <<42924,42924,1,-42315>>,
      <<42925,42925,1,-42305>>, <<42926,42926,1,-42308>>, <<42928,42928,1,-42258>>, <<42929,42929,1,-42282>>,
      <<42930,42930,1,-42261>>, <<42931,42931,1,928>>, <<42932,42946,2,1>>, <<42948,42948,1,-48>>,
      <<42949,42949,1,-42307>>, <<42950,42950,1,-35384>>, <<42951,42953,2,1>>, <<42960,42960,1,1>>,
      <<42966,42968,2,1>>, <<42997,42997,1,1>>, <<65313,65338,1,32>>, <<66560,66599,1,40>>,
      <<66736,66771,1,40>>, <<66928,66964,2,39>>, <<66929,66937,2,39>>, <<66941,66953,2,39>>,
      <<66957,66961,2,39>>, <<66965,66965,1,39>>, <<68736,68786,1,64>>, <<71840,71871,1,32>>,
      <<93760,93791,1,32>>, <<125184,125217,1,34>> >>

\* code points with the Unicode property Cased, as <<first, last>>
CasedRanges ==
    << <<65,90>>, <<97,122>>, <<170,170>>, <<181,181>>, <<186,186>>,
      <<192,214>>, <<216,246>>, <<248,442>>, <<444,447>>, <<452,659>>,
      <<661,696>>, <<704,705>>, <<736,740>>, <<837,837>>, <<880,883>>,
      <<886,887>>, <<890,893>>, <<895,895>>, <<902,902>>, <<904,906>>,
      <<908,908>>, <<910,929>>, <<931,1013>>, <<1015,1153>>, <<1162,1327>>,
      <<1329,1366>>, <<1376,1416>>, <<4256,4293>>, <<4295,4295>>, <<4301,4301>>,
      <<4304,4346>>, <<4349,4351>>, <<5024,5109>>, <<5112,5117>>, <<7296,7304>>,
      <<7312,7354>>, <<7357,7359>>, <<7424,7615>>, <<7680,7957>>, <<7960,7965>>,
      <<7968,8005>>, <<8008,8013>>, <<8016,8023>>, <<8025,8025>>, <<8027,8027>>,
      <<8029,8029>>, <<8031,8061>>, <<8064,8116>>, <<8118,8124>>, <<8126,8126>>,
      <<8130,8132>>, <<8134,8140>>, <<8144,8147>>, <<8150,8155>>, <<8160,8172>>,
      <<8178,8180>>, <<8182,8188>>, <<8305,8305>>, <<8319,8319>>, <<8336,8348>>,
      <<8450,8450>>, <<8455,8455>>, <<8458,8467>>, <<8469,8469>>, <<8473,8477>>,
      <<8484,8484>>, <<8486,8486>>, <<8488,8488>>, <<8490,8493>>, <<8495,8500>>,
      <<8505,8505>>, <<8508,8511>>, <<8517,8521>>, <<8526,8526>>, <<8544,8575>>,
      <<8579,8580>>, <<9398,9449>>, <<11264,11492>>, <<11499,11502>>, <<11506,11507>>,
      <<11520,11557>>, <<11559,11559>>, <<11565,11565>>, <<42560,42605>>, <<42624,42653>>,
      <<42786,42887>>, <<42891,42894>>, <<42896,42954>>, <<42960,42961>>, <<42963,42963>>,
      <<42965,42969>>, <<42997,42998>>, <<43000,43002>>, <<43824,43866>>, <<43868,43880>>,
      <<43888,43967>>, <<64256,64262>>, <<64275,64279>>, <<65313,65338>>, <<65345,65370>>,
      <<66560,66639>>, <<66736,66771>>, <<66776,66811>>, <<66928,66938>>, <<66940,66954>>,
      <<66956,66962>>, <<66964,66965>>, <<66967,66977>>, <<66979,66993>>, <<66995,67001>>,
      <<67003,67004>>, <<67456,67456>>, <<67459,67461>>, <<67463,67504>>, <<67506,67514>>,
      <<68736,68786>>, <<68800,68850>>, <<71840,71903>>, <<93760,93823>>, <<119808,119892>>,
      <<119894,119964>>, <<119966,119967>>, <<119970,119970>>, <<119973,119974>>, <<119977,119980>>,
      <<119982,119993>>, <<119995,119995>>, <<119997,120003>>, <<120005,120069>>, <<120071,120074>>,
      <<120077,120084>>, <<120086,120092>>, <<120094,120121>>, <<120123,120126>>, <<120128,120132>>,
      <<120134,120134>>, <<120138,120144>>, <<120146,120485>>, <<120488,120512>>, <<120514,120538>>,
      <<120540,120570>>, <<120572,120596>>, <<120598,120628>>, <<120630,120654>>, <<120656,120686>>,
      <<120688,120712>>, <<120714,120744>>, <<120746,120770>>, <<120772,120779>>, <<122624,122633>>,
      <<122635,122654>>, <<125184,125251>>, <<127280,127305>>, <<127312,127337>>, <<127344,127369>> >>

\* code points with the Unicode property Case_Ignorable, as <<first, last>>
CaseIgnorableRanges ==
    << <<39,39>>, <<46,46>>, <<58,58>>, <<94,94>>, <<96,96>>,
      <<168,168>>, <<173,173>>, <<175,175>>, <<180,180>>, <<183,184>>,
      <<688,879>>, <<884,885>>, <<890,890>>, <<900,901>>, <<903,903>>,
      <<1155,1161>>, <<1369,1369>>, <<1375,1375>>, <<1425,1469>>, <<1471,1471>>,
      <<1473,1474>>, <<1476,1477>>, <<1479,1479>>, <<1524,1524>>, <<1536,1541>>,
      <<1552,1562>>, <<1564,1564>>, <<1600,1600>>, <<1611,1631>>, <<1648,1648>>,
      <<1750,1757>>, <<1759,1768>>, <<1770,1773>>, <<1807,1807>>, <<1809,1809>>,
      <<1840,1866>>, <<1958,1968>>, <<2027,2037>>, <<2042,2042>>, <<2045,2045>>,
      <<2070,2093>>, <<2137,2139>>, <<2184,2184>>, <<2192,2193>>, <<2200,2207>>,
      <<2249,2306>>, <<2362,2362>>, <<2364,2364>>, <<2369,2376>>, <<2381,2381>>,
      <<2385,2391>>, <<2402,2403>>, <<2417,2417>>, <<2433,2433>>, <<2492,2492>>,
      <<2497,2500>>, <<2509,2509>>, <<2530,2531>>, <<2558,2558>>, <<2561,2562>>,
      <<2620,2620>>, <<2625,2626>>, <<2631,2632>>, <<2635,2637>>, <<2641,2641>>,
      <<2672,2673>>, <<2677,2677>>, <<2689,2690>>, <<2748,2748>>, <<2753,2757>>,
      <<2759,2760>>, <<2765,2765>>, <<2786,2787>>, <<2810,2815>>, <<2817,2817>>,
      <<2876,2876>>, <<2879,2879>>, <<2881,2884>>, <<2893,2893>>, <<2901,2902>>,
      <<2914,2915>>, <<2946,2946>>, <<3008,3008>>, <<3021,3021>>, <<3072,3072>>,
      <<3076,3076>>, <<3132,3132>>, <<3134,3136>>, <<3142,3144>>, <<3146,3149>>,
      <<3157,3158>>, <<3170,3171>>, <<3201,3201>>, <<3260,3260>>, <<3263,3263>>,
      <<3270,3270>>, <<3276,3277>>, <<3298,3299>>, <<3328,3329>>, <<3387,3388>>,
      <<3393,3396>>, <<3405,3405>>, <<3426,3427>>, <<3457,3457>>, <<3530,3530>>,
      <<3538,3540>>, <<3542,3542>>, <<3633,3633>>, <<3636,3642>>, <<3654,3662>>,
      <<3761,3761>>, <<3764,3772>>, <<3782,3782>>, <<3784,3789>>, <<3864,3865>>,
      <<3893,3893>>, <<3895,3895>>, <<3897,3897>>, <<3953,3966>>, <<3968,3972>>,
      <<3974,3975>>, <<3981,3991>>, <<3993,4028>>, <<4038,4038>>, <<4141,4144>>,
      <<4146,4151>>, <<4153,4154>>, <<4157,4158>>, <<4184,4185>>, <<4190,4192>>,
      <<4209,4212>>, <<4226,4226>>, <<4229,4230>>, <<4237,4237>>, <<4253,4253>>,
      <<4348,4348>>, <<4957,4959>>, <<5906,5908>>, <<5938,5939>>, <<5970,5971>>,
      <<6002,6003>>, <<6068,6069>>, <<6071,6077>>, <<6086,6086>>, <<6089,6099>>,
      <<6103,6103>>, <<6109,6109>>, <<6155,6159>>, <<6211,6211>>, <<6277,6278>>,
      <<6313,6313>>, <<6432,6434>>, <<6439,6440>>, <<6450,6450>>, <<6457,6459>>,
      <<6679,6680>>, <<6683,6683>>, <<6742,6742>>, <<6744,6750>>, <<6752,6752>>,
      <<6754,6754>>, <<6757,6764>>, <<6771,6780>>, <<6783,6783>>, <<6823,6823>>,
      <<6832,6862>>, <<6912,6915>>, <<6964,6964>>, <<6966,6970>>, <<6972,6972>>,
      <<6978,6978>>, <<7019,7027>>, <<7040,7041>>, <<7074,7077>>, <<7080,7081>>,
      <<7083,7085>>, <<7142,7142>>, <<7144,7145>>, <<7149,7149>>, <<7151,7153>>,
      <<7212,7219>>, <<7222,7223>>, <<7288,7293>>, <<7376,7378>>, <<7380,7392>>,
      <<7394,7400>>, <<7405,7405>>, <<7412,7412>>, <<7416,7417>>, <<7468,7530>>,
      <<7544,7544>>, <<7579,7679>>, <<8125,8125>>, <<8127,8129>>, <<8141,8143>>,
      <<8157,8159>>, <<8173,8175>>, <<8189,8190>>, <<8203,8207>>, <<8216,8217>>,
      <<8228,8228>>, <<8231,8231>>, <<8234,8238>>, <<8288,8292>>, <<8294,8303>>,
      <<8305,8305>>, <<8319,8319>>, <<8336,8348>>, <<8400,8432>>, <<11388,11389>>,
      <<11503,11505>>, <<11631,11631>>, <<11647,11647>>, <<11744,11775>>, <<11823,11823>>,
      <<12293,12293>>, <<12330,12333>>, <<12337,12341>>, <<12347,12347>>, <<12441,12446>>,
      <<12540,12542>>, <<40981,40981>>, <<42232,42237>>, <<42508,42508>>, <<42607,42610>>,
      <<42612,42621>>, <<42623,42623>>, <<42652,42655>>, <<42736,42737>>, <<42752,42785>>,
      <<42864,42864>>, <<42888,42890>>, <<42994,42996>>, <<43000,43001>>, <<43010,43010>>,
      <<43014,43014>>, <<43019,43019>>, <<43045,43046>>, <<43052,43052>>, <<43204,43205>>,
      <<43232,43249>>, <<43263,43263>>, <<43302,43309>>, <<43335,43345>>, <<43392,43394>>,
      <<43443,43443>>, <<43446,43449>>, <<43452,43453>>, <<43471,43471>>, <<43493,43494>>,
      <<43561,43566>>, <<43569,43570>>, <<43573,43574>>, <<43587,43587>>, <<43596,43596>>,
      <<43632,43632>>, <<43644,43644>>, <<43696,43696>>, <<43698,43700>>, <<43703,43704>>,
      <<43710,43711>>, <<43713,43713>>, <<43741,43741>>, <<43756,43757>>, <<43763,43764>>,
      <<43766,43766>>, <<43867,43871>>, <<43881,43883>>, <<44005,44005>>, <<44008,44008>>,
      <<44013,44013>>, <<64286,64286>>, <<64434,64450>>, <<65024,65039>>, <<65043,65043>>,
      <<65056,65071>>, <<65106,65106>>, <<65109,65109>>, <<65279,65279>>, <<65287,65287>>,
      <<65294,65294>>, <<65306,65306>>, <<65342,65342>>, <<65344,65344>>, <<65392,65392>>,
      <<65438,65439>>, <<65507,65507>>, <<65529,65531>>, <<66045,66045>>, <<66272,66272>>,
      <<66422,66426>>, <<67456,67461>>, <<67463,67504>>, <<67506,67514>>, <<68097,68099>>,
      <<68101,68102>>, <<68108,68111>>, <<68152,68154>>, <<68159,68159>>, <<68325,68326>>,
      <<68900,68903>>, <<69291,69292>>, <<69446,69456>>, <<69506,69509>>, <<69633,69633>>,
      <<69688,69702>>, <<69744,69744>>, <<69747,69748>>, <<69759,69761>>, <<69811,69814>>,
      <<69817,69818>>, <<69821,69821>>, <<69826,69826>>, <<69837,69837>>, <<69888,69890>>,
      <<69927,69931>>, <<69933,69940>>, <<70003,70003>>, <<70016,70017>>, <<70070,70078>>,
      <<70089,70092>>, <<70095,70095>>, <<70191,70193>>, <<70196,70196>>, <<70198,70199>>,
      <<70206,70206>>, <<70367,70367>>, <<70371,70378>>, <<70400,70401>>, <<70459,70460>>,
      <<70464,70464>>, <<70502,70508>>, <<70512,70516>>, <<70712,70719>>, <<70722,70724>>,
      <<70726,70726>>, <<70750,70750>>, <<70835,70840>>, <<70842,70842>>, <<70847,70848>>,
      <<70850,70851>>, <<71090,71093>>, <<71100,71101>>, <<71103,71104>>, <<71132,71133>>,
      <<71219,71226>>, <<71229,71229>>, <<71231,71232>>, <<71339,71339>>, <<71341,71341>>,
      <<71344,71349>>, <<71351,71351>>, <<71453,71455>>, <<71458,71461>>, <<71463,71467>>,
      <<71727,71735>>, <<71737,71738>>, <<71995,71996>>, <<71998,71998>>, <<72003,72003>>,
      <<72148,72151>>, <<72154,72155>>, <<72160,72160>>, <<72193,72202>>, <<72243,72248>>,
      <<72251,72254>>, <<72263,72263>>, <<72273,72278>>, <<72281,72283>>, <<72330,72342>>,
      <<72344,72345>>, <<72752,72758>>, <<72760,72765>>, <<72767,72767>>, <<72850,72871>>,
      <<72874,72880>>, <<72882,72883>>, <<72885,72886>>, <<73009,73014>>, <<73018,73018>>,
      <<73020,73021>>, <<73023,73029>>, <<73031,73031>>, <<73104,73105>>, <<73109,73109>>,
      <<73111,73111>>, <<73459,73460>>, <<78896,78904>>, <<92912,92916>>, <<92976,92982>>,
      <<92992,92995>>, <<94031,94031>>, <<94095,94111>>, <<94176,94177>>, <<94179,94180>>,
      <<110576,110579>>, <<110581,110587>>, <<110589,110590>>, <<113821,113822>>, <<113824,113827>>,
      <<118528,118573>>, <<118576,118598>>, <<119143,119145>>, <<119155,119170>>, <<119173,119179>>,
      <<119210,119213>>, <<119362,119364>>, <<121344,121398>>, <<121403,121452>>, <<121461,121461>>,
      <<121476,121476>>, <<121499,121503>>, <<121505,121519>>, <<122880,122886>>, <<122888,122904>>,
      <<122907,122913>>, <<122915,122916>>, <<122918,122922>>, <<123184,123197>>, <<123566,123566>>,
      <<123628,123631>>, <<125136,125142>>, <<125252,125259>>, <<127995,127999>>, <<917505,917505>>,
      <<917536,917631>>, <<917760,917999>> >>

Cased == InRanges(CasedRanges)

CaseIgnorable == InRanges(CaseIgnorableRanges)

\* U+03A3, capital sigma, whose lower case depends on its neighbours
CapitalSigma == CodePoint(931)

\* each character that str.lower() changes, with its lower case: the
\* characters of LowerRules, and U+0130 (capital I with dot above), which
\* becomes the two code points i, U+0307
LowerPairs ==
    UNION { { << CodePoint(n), << CodePoint(n + LowerRules[i][4]) >> >> :
                n \in { m \in LowerRules[i][1]..LowerRules[i][2] :
                          (m - LowerRules[i][1]) % LowerRules[i][3] = 0 } } :
            i \in 1..Len(LowerRules) }
      \cup { << CodePoint(304), << "i", CodePoint(775) >> >> }

LowerTable ==
    [c \in { p[1] : p \in LowerPairs } |->
        (CHOOSE p \in LowerPairs : p[1] = c)[2]]

RECURSIVE Concat(_)
Concat(frags) ==
    IF Len(frags) = 0 THEN <<>> ELSE Head(frags) \o Concat(Tail(frags))

\* str.lower() of the one-character string c: a string of one or two
\* characters
LowerChar(c) == IF c \in DOMAIN LowerTable THEN LowerTable[c] ELSE << c >>

\* s[i] is in the Final_Sigma context: going back over case-ignorable
\* characters a cased one is found, and going forward over case-ignorable
\* characters none is
FinalSigma(s, i) ==
    /\ \E j \in 1..(i - 1) :
          /\ s[j] \notin CaseIgnorable
          /\ s[j] \in Cased
          /\ \A k \in (j + 1)..(i - 1) : s[k] \in CaseIgnorable
    /\ ~\E j \in (i + 1)..Len(s) :
          /\ s[j] \notin CaseIgnorable
          /\ s[j] \in Cased
          /\ \A k \in (i + 1)..(j - 1) : s[k] \in CaseIgnorable

\* request.message.lower(): every character replaced by its lower case, a
\* capital sigma in the Final_Sigma context by the final sigma U+03C2
Lower(s) ==
    Concat([i \in 1..Len(s) |->
              IF s[i] = CapitalSigma /\ FinalSigma(s, i)
              THEN << CodePoint(962) >>
              ELSE LowerChar(s[i])])

\* `k in s` for strings
Contains(s, k) ==
    \E i \in 0..(Len(s) - Len(k)) : SubSeq(s, i + 1, i + Len(k)) = k

\* any(keyword in user_input for keyword in keywords)
AnyKeyword(user_input, keywords) ==
    \E j \in 1..Len(keywords) : Contains(user_input, keywords[j])

----------------------------------------------------------------------------
(* Keyword lists of the five branches, in source order *)

StudyKeywords ==
    << <<"s","c","h","e","d","u","l","e">>,
       <<"p","l","a","n">>,
       <<"s","t","u","d","y"," ","p","l","a","n">> >>

TaskKeywords ==
    << <<"a","s","s","i","g","n","m","e","n","t">>,
       <<"d","e","a","d","l","i","n","e">>,
       <<"d","u","e">>,
       <<"t","a","s","k">> >>

StressKeywords ==
    << <<"s","t","r","e","s","s">>,
       <<"o","v","e","r","w","o","r","k">>,
       <<"b","u","r","n","o","u","t">>,
       <<"o","v","e","r","w","h","e","l","m">> >>

TeacherKeywords ==
    << <<"e","x","p","l","a","i","n">>,
       <<"c","o","n","c","e","p","t">>,
       <<"d","e","f","i","n","i","t","i","o","n">>,
       <<"t","h","e","o","r","y">>,
       <<"u","n","d","e","r","s","t","a","n","d">> >>

MotivatorKeywords ==
    << <<"m","o","t","i","v","a","t","e">>,
       <<"e","n","c","o","u","r","a","g","e">>,
       <<"f","e","e","l","i","n","g"," ","l","o","w">>,
       <<"p","o","s","i","t","i","v","e">>,
       <<"i","n","s","p","i","r","e">> >>

\* The six module-level Agent objects
Agents ==
    {"chatbot_agent", "task_manager", "stress_predictor",
     "adaptive_scheduler", "teacher_agent", "motivator_agent"}

\* name= of each Agent
AgentName ==
    [chatbot_agent |-> "Study Assistant",
     task_manager |-> "Task Manager",
     stress_predictor |-> "Stress Predictor",
     adaptive_scheduler |-> "Adaptive Scheduler",
     teacher_agent |-> "Teacher Bot",
     motivator_agent |-> "Motivator"]

----------------------------------------------------------------------------
(* The if / elif chain of chat(): agent, description and expected_output.  *)
(* description is the f-string: a fixed prefix followed by request.message *)
(* (the original text, not the lower-cased one).                           *)

Work(agent, prefix, message, expected_output) ==
    [agent |-> agent,
     description |-> [prefix |-> prefix, message |-> message],
     expected_output |-> expected_output]

\* variant: the assignment/deadline branch is tested before study/plan
ClassifyTaskFirst(message) ==
    LET user_input == Lower(message) IN
    IF AnyKeyword(user_input, TaskKeywords) THEN
        Work("task_manager",
             "Check for pending assignments based on this request: ", message,
             "A list of pending assignments.")
    ELSE IF AnyKeyword(user_input, StudyKeywords) THEN
        Work("chatbot_agent",
             "Create a study schedule based on this request: ", message,
             "A well-structured study plan.")
    ELSE IF AnyKeyword(user_input, StressKeywords) THEN
        Work("stress_predictor",
             "Analyze workload and predict stress levels based on this request: ",
             message,
             "A stress level assessment.")
    ELSE IF AnyKeyword(user_input, TeacherKeywords) THEN
        Work("teacher_agent",
             "Explain this academic concept: ", message,
             "A clear and concise explanation of the topic.")
    ELSE IF AnyKeyword(user_input, MotivatorKeywords) THEN
        Work("motivator_agent",
             "Give an uplifting and positive message for this request: ", message,
             "A motivating and cheerful response.")
    ELSE
        Work("chatbot_agent",
             "Respond to this student query: ", message,
             "A helpful response.")

\* variant: the chain has no else branch, an unmatched message binds nothing
ClassifyNoElse(message) ==
    LET user_input == Lower(message) IN
    IF AnyKeyword(user_input, StudyKeywords) THEN
        Work("chatbot_agent",
             "Create a study schedule based on this request: ", message,
             "A well-structured study plan.")
    ELSE IF AnyKeyword(user_input, TaskKeywords) THEN
        Work("task_manager",
             "Check for pending assignments based on this request: ", message,
             "A list of pending assignments.")
    ELSE IF AnyKeyword(user_input, StressKeywords) THEN
        Work("stress_predictor",
             "Analyze workload and predict stress levels based on this request: ",
             message,
             "A stress level assessment.")
    ELSE IF AnyKeyword(user_input, TeacherKeywords) THEN
        Work("teacher_agent",
             "Explain this academic concept: ", message,
             "A clear and concise explanation of the topic.")
    ELSE IF AnyKeyword(user_input, MotivatorKeywords) THEN
        Work("motivator_agent",
             "Give an uplifting and positive message for this request: ", message,
             "A motivating and cheerful response.")
    ELSE
        Work("", "", message, "")

\* variant: the descriptor of the assignment/deadline branch depends on the
\* keyword that matched
ClassifyKeywordOutput(message) ==
    LET user_input == Lower(message) IN
    IF AnyKeyword(user_input, StudyKeywords) THEN
        Work("chatbot_agent",
             "Create a study schedule based on this request: ", message,
             "A well-structured study plan.")
    ELSE IF AnyKeyword(user_input, TaskKeywords) THEN
        Work("task_manager",
             "Check for pending assignments based on this request: ", message,
             IF Contains(user_input, TaskKeywords[2])
             THEN "A list of upcoming deadlines."
             ELSE "A list of pending assignments.")
    ELSE IF AnyKeyword(user_input, StressKeywords) THEN
        Work("stress_predictor",
             "Analyze workload and predict stress levels based on this request: ",
             message,
             "A stress level assessment.")
    ELSE IF AnyKeyword(user_input, TeacherKeywords) THEN
        Work("teacher_agent",
             "Explain this academic concept: ", message,
             "A clear and concise explanation of the topic.")
    ELSE IF AnyKeyword(user_input, MotivatorKeywords) THEN
        Work("motivator_agent",
             "Give an uplifting and positive message for this request: ", message,
             "A motivating and cheerful response.")
    ELSE
        Work("chatbot_agent",
             "Respond to this student query: ", message,
             "A helpful response.")

\* variant: the study/plan branch hands the request to the scheduler agent
ClassifyWithScheduler(message) ==
    LET user_input == Lower(message) IN
    IF AnyKeyword(user_input, StudyKeywords) THEN
        Work("adaptive_scheduler",
             "Create a study schedule based on this request: ", message,
             "A well-structured study plan.")
    ELSE IF AnyKeyword(user_input, TaskKeywords) THEN
        Work("task_manager",
             "Check for pending assignments based on this request: ", message,
             "A list of pending assignments.")
    ELSE IF AnyKeyword(user_input, StressKeywords) THEN
        Work("stress_predictor",
             "Analyze workload and predict stress levels based on this request: ",
             message,
             "A stress level assessment.")
    ELSE IF AnyKeyword(user_input, TeacherKeywords) THEN
        Work("teacher_agent",
             "Explain this academic concept: ", message,
             "A clear and concise explanation of the topic.")
    ELSE IF AnyKeyword(user_input, MotivatorKeywords) THEN
        Work("motivator_agent",
             "Give an uplifting and positive message for this request: ", message,
             "A motivating and cheerful response.")
    ELSE
        Work("chatbot_agent",
             "Respond to this student query: ", message,
             "A helpful response.")

Classify(message) ==
    LET user_input == Lower(message) IN
    IF AnyKeyword(user_input, StudyKeywords) THEN
        Work("chatbot_agent",
             "Create a study schedule based on this request: ", message,
             "A well-structured study plan.")
    ELSE IF AnyKeyword(user_input, TaskKeywords) THEN
        Work("task_manager",
             "Check for pending assignments based on this request: ", message,
             "A list of pending assignments.")
    ELSE IF AnyKeyword(user_input, StressKeywords) THEN
        Work("stress_predictor",
             "Analyze workload and predict stress levels based on this request: ",
             message,
             "A stress level assessment.")
    ELSE IF AnyKeyword(user_input, TeacherKeywords) THEN
        Work("teacher_agent",
             "Explain this academic concept: ", message,
             "A clear and concise explanation of the topic.")
    ELSE IF AnyKeyword(user_input, MotivatorKeywords) THEN
        Work("motivator_agent",
             "Give an uplifting and positive message for this request: ", message,
             "A motivating and cheerful response.")
    ELSE
        Work("chatbot_agent",
             "Respond to this student query: ", message,
             "A helpful response.")

----------------------------------------------------------------------------
(* Messages *)

\* Messages of the requests of the concurrent specification; the last
\* character of the second is the Kelvin sign, which only str.lower() turns
\* into the k of the keyword
ChatMessages ==
    { <<"P","l","a","n">>,
      <<"t","a","s","U+212A">> }

\* The requests of the concurrent specification: each user with a message
ChatInputs ==
    { << "u1", <<"P","l","a","n">> >>,
      << "u2", <<"t","a","s","U+212A">> >> }

\* Fragments from which the classified messages are built; the last five
\* are "tas" with the Kelvin sign, "DEADL" U+0130 "NE", a word with U+00C9,
\* omicron and capital sigma, and an apostrophe before a letter
Fragments ==
    { <<"h","e","l","l","o"," ","t","h","e","r","e">>,
      <<"m","y"," ">>,
      <<"H","i"," ">>,
      <<"P","l","a","n">>,
      <<"p","l">>,
      <<"a","n"," ">>,
      <<"s","c","h","e","d","u","l","e">>,
      <<"D","E","A","D","L","I","N","E">>,
      <<"d","u","e">>,
      <<"t","a","s","k">>,
      <<"s","t","r","e","s","s","e","d">>,
      <<"b","u","r","n","o","u","t">>,
      <<"E","x","p","l","a","i","n">>,
      <<"t","h","e","o","r","y">>,
      <<"m","o","t","i","v","a","t","e">>,
      <<"f","e","e","l","i","n","g">>,
      <<" ","l","o","w">>,
      <<"i","n","s","p","i","r","e">>,
      <<"t","a","s","U+212A">>,
      <<"D","E","A","D","L","U+0130","N","E">>,
      <<"U+00C9","C","O","L","E">>,
      <<"U+039F","U+03A3">>,
      <<"'","s"," ">> }

\* Messages of the requests that are classified side by side
PairMessages == Fragments \cup { <<>> }

\* every concatenation of at most MaxFrags fragments, the empty string included
AllMessages ==
    { Concat(fs) : fs \in UNION { [1..n -> Fragments] : n \in 0..MaxFrags } }

----------------------------------------------------------------------------
(* State *)

VARIABLES
    store,      \* messages_collection: the documents in insertion order
    req,        \* one record per /chat request: locals of chat() and its answer,
                \* the number of kickoff_async() calls made for it, and whether
                \* its caller has gone
    lastOp      \* the handler that ran last; for history and clear, its answer

vars == <<store, req, lastOp>>

\* A document of the collection; ex stands for the _id ObjectIds of the
\* pair: it names the request whose insert_many created the document.
Doc(ex, user_id, role, text) ==
    [ex |-> ex, user_id |-> user_id, role |-> role, text |-> text]

\* variant: the bot document is listed first
PairDocsBotFirst(r, user_id, message, bot_response) ==
    << Doc(r, user_id, "bot", bot_response),
       Doc(r, user_id, "user", message) >>

\* variant: the lower-cased user_input is stored as the user text
PairDocsLowered(r, user_id, message, bot_response) ==
    << Doc(r, user_id, "user", Lower(message)),
       Doc(r, user_id, "bot", bot_response) >>

\* the two documents passed to insert_many, in list order
PairDocs(r, user_id, message, bot_response) ==
    << Doc(r, user_id, "user", message),
       Doc(r, user_id, "bot", bot_response) >>

\* the documents matching {"user_id": user_id}, in natural order
UserDocs(s, user_id) == SelectSeq(s, LAMBDA d : d.user_id = user_id)

\* the projection {"_id": 0}
Project(ds) ==
    [i \in 1..Len(ds) |->
        [user_id |-> ds[i].user_id, role |-> ds[i].role, text |-> ds[i].text]]

\* variant: find({}, {"_id": 0}), the filter is missing
FindUnfiltered(s, user_id) == Project(s)

\* result of find({"user_id": user_id}, {"_id": 0})
Find(s, user_id) == Project(UserDocs(s, user_id))

\* variant: delete_one, only the first matching document is removed
DeleteOne(s, user_id) ==
    IF \E i \in 1..Len(s) : s[i].user_id = user_id
    THEN LET i == CHOOSE i \in 1..Len(s) :
                    /\ s[i].user_id = user_id
                    /\ \A j \in 1..(i - 1) : s[j].user_id # user_id
         IN  SubSeq(s, 1, i - 1) \o SubSeq(s, i + 1, Len(s))
    ELSE s

\* variant: delete_many({}), the filter is missing
DeleteAll(s, user_id) == <<>>

\* collection after delete_many({"user_id": user_id})
DeleteMany(s, user_id) == SelectSeq(s, LAMBDA d : d.user_id # user_id)

\* collection after a delete_many({"user_id": user_id}) that stopped after
\* the first k matching documents
RECURSIVE DeleteFirst(_, _, _)
DeleteFirst(s, user_id, k) ==
    IF k = 0 \/ Len(s) = 0 THEN s
    ELSE IF Head(s).user_id = user_id
    THEN DeleteFirst(Tail(s), user_id, k - 1)
    ELSE << Head(s) >> \o DeleteFirst(Tail(s), user_id, k)

\* variant: the written documents are placed before the existing ones
InsertManyAtFront(s, docs, k) == SubSeq(docs, 1, k) \o s

\* collection after an ordered insert_many of which the first k documents
\* were written (k = Len(docs) when it returns normally)
InsertMany(s, docs, k) == s \o SubSeq(docs, 1, k)

IdleReq ==
    [pc |-> "idle", user_id |-> "", message |-> <<>>,
     agent |-> "", description |-> [prefix |-> "", message |-> <<>>],
     expected_output |-> "",
     bot_response |-> <<>>, status |-> 0, response |-> <<>>, detail |-> "",
     kickoffs |-> 0, abandoned |-> FALSE]

NoOp ==
    [op |-> "none", user_id |-> "", status |-> 0, detail |-> "",
     deleted_count |-> 0, messages |-> <<>>]

Init ==
    /\ store = <<>>
    /\ req = [r \in Requests |-> IdleReq]
    /\ lastOp = NoOp

----------------------------------------------------------------------------
(* POST /chat *)

\* chat() from entry to the await: classification, Task and Crew built,
\* kickoff_async() started
ChatStart(r, user_id, message) ==
    /\ req[r].pc = "idle"
    /\ \A q \in Requests : q < r => req[q].pc # "idle"
    /\ LET w == Classify(message) IN
       req' = [req EXCEPT ![r] =
                  [@ EXCEPT !.pc = "pending",
                            !.user_id = user_id,
                            !.message = message,
                            !.agent = w.agent,
                            !.description = w.description,
                            !.expected_output = w.expected_output,
                            !.kickoffs = @ + 1]]
    /\ lastOp' = [NoOp EXCEPT !.op = "chat"]
    /\ UNCHANGED store

\* variant: the user document is written before the kickoff is awaited,
\* so a failed kickoff leaves it behind
KickoffFailKeepsUserMessage(r) ==
    /\ req[r].pc = "pending"
    /\ store' = store \o << Doc(r, req[r].user_id, "user", req[r].message) >>
    /\ req' = [req EXCEPT ![r] =
                  [@ EXCEPT !.pc = "done", !.status = 500,
                            !.detail = "dispatch error"]]
    /\ lastOp' = [NoOp EXCEPT !.op = "chat"]

\* variant: a failed kickoff is retried once before the except branch
KickoffFailRetry(r) ==
    /\ req[r].pc = "pending"
    /\ req' = [req EXCEPT ![r] =
                  IF @.kickoffs < 2
                  THEN [@ EXCEPT !.kickoffs = @ + 1]
                  ELSE [@ EXCEPT !.pc = "done", !.status = 500,
                                 !.detail = "dispatch error"]]
    /\ lastOp' = [NoOp EXCEPT !.op = "chat"]
    /\ UNCHANGED store

\* variant: the exception of the kickoff is swallowed and the kickoff is
\* awaited again
KickoffFailAwaitsAgain(r) ==
    /\ req[r].pc = "pending"
    /\ lastOp' = [NoOp EXCEPT !.op = "chat"]
    /\ UNCHANGED <<store, req>>

\* the awaited kickoff raises (or response has no usable .raw): except branch
KickoffFail(r) ==
    /\ req[r].pc = "pending"
    /\ req' = [req EXCEPT ![r] =
                  [@ EXCEPT !.pc = "done", !.status = 500,
                            !.detail = "dispatch error"]]
    /\ lastOp' = [NoOp EXCEPT !.op = "chat"]
    /\ UNCHANGED store

\* variant: user_id and message are read from a module-level variable that
\* the request that entered last has overwritten
ChatSucceedSharedState(r, bot_response) ==
    /\ req[r].pc = "pending"
    /\ LET last == CHOOSE q \in Requests :
                        /\ req[q].pc # "idle"
                        /\ \A p \in Requests : p > q => req[p].pc = "idle"
       IN  store' = InsertMany(store,
                        PairDocs(r, req[last].user_id, req[last].message,
                                 bot_response), 2)
    /\ req' = [req EXCEPT ![r] =
                  [@ EXCEPT !.pc = "done", !.bot_response = bot_response,
                            !.status = 200, !.response = bot_response]]
    /\ lastOp' = [NoOp EXCEPT !.op = "chat"]

\* the kickoff returns bot_response, insert_many writes both documents,
\* the handler returns {"response": bot_response}
ChatSucceed(r, bot_response) ==
    /\ req[r].pc = "pending"
    /\ store' = InsertMany(store,
                    PairDocs(r, req[r].user_id, req[r].message, bot_response), 2)
    /\ req' = [req EXCEPT ![r] =
                  [@ EXCEPT !.pc = "done", !.bot_response = bot_response,
                            !.status = 200, !.response = bot_response]]
    /\ lastOp' = [NoOp EXCEPT !.op = "chat"]

\* variant: the exception of insert_many is swallowed and the handler
\* returns the generated text
InsertFailSwallowed(r, bot_response, k) ==
    /\ req[r].pc = "pending"
    /\ k \in 0..2
    /\ store' = InsertMany(store,
                    PairDocs(r, req[r].user_id, req[r].message, bot_response), k)
    /\ req' = [req EXCEPT ![r] =
                  [@ EXCEPT !.pc = "done", !.bot_response = bot_response,
                            !.status = 200, !.response = bot_response]]
    /\ lastOp' = [NoOp EXCEPT !.op = "chat"]

\* the kickoff returns bot_response, insert_many raises after k of the two
\* documents were written (ordered bulk insert: the documents before the
\* failing one stay; k = 2 when the error reaches the handler after the
\* server has written both), except branch; bot_response is lost with the
\* frame
InsertFail(r, bot_response, k) ==
    /\ req[r].pc = "pending"
    /\ k \in 0..2
    /\ store' = InsertMany(store,
                    PairDocs(r, req[r].user_id, req[r].message, bot_response), k)
    /\ req' = [req EXCEPT ![r] =
                  [@ EXCEPT !.pc = "done", !.status = 500,
                            !.detail = "store error"]]
    /\ lastOp' = [NoOp EXCEPT !.op = "chat"]

\* the caller of r gives up while the kickoff is awaited.  chat() never
\* looks at the connection (no is_disconnected(), no timeout around the
\* await), so the handler is not told and goes on as for any other request.
Abandon(r) ==
    /\ req[r].pc = "pending"
    /\ ~req[r].abandoned
    /\ req' = [req EXCEPT ![r] = [@ EXCEPT !.abandoned = TRUE]]
    /\ UNCHANGED <<store, lastOp>>

\* the task of an abandoned request is cancelled by the server while it
\* awaits the kickoff: CancelledError is no Exception, so the except branch
\* is not taken, nothing is written and nothing is answered
ChatCancelled(r) ==
    /\ req[r].pc = "pending"
    /\ req[r].abandoned
    /\ req' = [req EXCEPT ![r] = [@ EXCEPT !.pc = "done"]]
    /\ lastOp' = [NoOp EXCEPT !.op = "chat"]
    /\ UNCHANGED store

----------------------------------------------------------------------------
(* DELETE /chat/history/{user_id} *)

\* variant: a delete that removed nothing is answered 404
DeleteChatHistoryNotFound(user_id) ==
    /\ store' = DeleteMany(store, user_id)
    /\ lastOp' = IF Len(store) = Len(store')
                 THEN [NoOp EXCEPT !.op = "clear", !.user_id = user_id,
                                   !.status = 404, !.detail = "not found"]
                 ELSE [NoOp EXCEPT !.op = "clear", !.user_id = user_id,
                                   !.status = 200,
                                   !.deleted_count = Len(store) - Len(store')]
    /\ UNCHANGED req

DeleteChatHistory(user_id) ==
    /\ store' = DeleteMany(store, user_id)
    /\ lastOp' = [NoOp EXCEPT !.op = "clear", !.user_id = user_id,
                              !.status = 200,
                              !.deleted_count = Len(store) - Len(store')]
    /\ UNCHANGED req

\* delete_many raises after it removed k of the matching documents (the
\* documents are removed one by one, in the natural order in which the
\* scan of the collection finds them; k is their number when the error
\* reaches the handler after the server has removed all): except branch
DeleteChatHistoryFail(user_id, k) ==
    /\ k \in 0..Len(UserDocs(store, user_id))
    /\ store' = DeleteFirst(store, user_id, k)
    /\ lastOp' = [NoOp EXCEPT !.op = "clear", !.user_id = user_id,
                              !.status = 500, !.detail = "store error"]
    /\ UNCHANGED req

----------------------------------------------------------------------------
(* GET /chat/history/{user_id} *)

GetChatHistory(user_id) ==
    /\ lastOp' = [NoOp EXCEPT !.op = "history", !.user_id = user_id,
                              !.status = 200,
                              !.messages = Find(store, user_id)]
    /\ UNCHANGED <<store, req>>

\* find raises: except branch
GetChatHistoryFail(user_id) ==
    /\ lastOp' = [NoOp EXCEPT !.op = "history", !.user_id = user_id,
                              !.status = 500, !.detail = "store error"]
    /\ UNCHANGED <<store, req>>

----------------------------------------------------------------------------
(* Specifications *)

Next ==
    \/ \E r \in Requests, i \in ChatInputs : ChatStart(r, i[1], i[2])
    \/ \E r \in Requests : KickoffFail(r)
    \/ \E r \in Requests, t \in BotTexts : ChatSucceed(r, t)
    \/ \E r \in Requests, t \in BotTexts, k \in 0..2 : InsertFail(r, t, k)
    \/ \E u \in Users : DeleteChatHistory(u)
    \/ \E u \in Users, k \in 0..(2 * MaxReq) : DeleteChatHistoryFail(u, k)
    \/ \E u \in Users : GetChatHistory(u)
    \/ \E u \in Users : GetChatHistoryFail(u)

Spec == Init /\ [][Next]_vars

\* Classification alone: one request, its message drawn from AllMessages
ClassifyNext ==
    \E u \in Users, m \in AllMessages : ChatStart(1, u, m)

ClassifySpec == Init /\ [][ClassifyNext]_vars

\* the awaited kickoff of r returns or raises and, when it returned, the
\* insert_many returns or raises: chat() runs from the await to its end
Finish(r) ==
    \/ KickoffFail(r)
    \/ \E t \in BotTexts : ChatSucceed(r, t)
    \/ \E t \in BotTexts, k \in 0..2 : InsertFail(r, t, k)

\* The handlers, with every awaited kickoff and every store call coming back
LiveSpec == Init /\ [][Next]_vars /\ \A r \in Requests : WF_vars(Finish(r))

\* Classification of several requests: each message drawn from PairMessages
ClassifyPairNext ==
    \E r \in Requests, u \in Users, m \in PairMessages : ChatStart(r, u, m)

ClassifyPairSpec == Init /\ [][ClassifyPairNext]_vars

\* The handlers with callers that may give up on a pending /chat request
CancelNext ==
    \/ Next
    \/ \E r \in Requests : Abandon(r)
    \/ \E r \in Requests : ChatCancelled(r)

CancelSpec == Init /\ [][CancelNext]_vars

----------------------------------------------------------------------------
(* Properties of the exchange *)

\* the step in which request r leaves chat()
Ends(r) == req[r].pc = "pending" /\ req'[r].pc = "done"

\* the documents in s that the insert_many of request r created
DocsOf(s, r) == SelectSeq(s, LAMBDA d : d.ex = r)

HasDoc(s, r, role) == \E i \in 1..Len(s) : s[i].ex = r /\ s[i].role = role

\* a Message as history returns it
Msg(user_id, role, text) == [user_id |-> user_id, role |-> role, text |-> text]

\* C1: the step in which an exchange handle(u, m) ends in success takes
\* history(u) from what it was just before the step (which is history(u)
\* before the call when no other operation on u ran in between) to the same
\* sequence followed by exactly two Messages: role user with text m, then
\* role bot.
C1_SuccessAppendsPair ==
    [][\A r \in Requests :
        (Ends(r) /\ req'[r].status = 200)
        => LET u == req[r].user_id
               before == Find(store, u)
               after == Find(store', u)
           IN  /\ Len(after) = Len(before) + 2
               /\ SubSeq(after, 1, Len(before)) = before
               /\ after[Len(before) + 1] = Msg(u, "user", req[r].message)
               /\ after[Len(before) + 2].role = "bot"
               /\ after[Len(before) + 2].user_id = u]_vars

\* a successful exchange of a user whose log already held the pair of an
\* earlier exchange: the log is the two pairs, the later one at the end
C1_Witness ==
    \E r1, r2 \in Requests :
        /\ r1 # r2
        /\ req[r1].user_id = req[r2].user_id
        /\ req[r1].status = 200 /\ req[r2].status = 200
        /\ UserDocs(store, req[r2].user_id)
             = PairDocs(r1, req[r1].user_id, req[r1].message, req[r1].response)
               \o PairDocs(r2, req[r2].user_id, req[r2].message, req[r2].response)

\* C2: when the kickoff of an exchange fails, the request ends with status
\* 500 and a detail string and no response, the step writes nothing (the
\* store, and with it history(u), is what it was), and no document of that
\* exchange is in the store in any later state.
C2_DispatchFailureWritesNothing ==
    /\ [](\A r \in Requests :
            (req[r].pc = "done" /\ req[r].detail = "dispatch error")
            => /\ req[r].status = 500
               /\ req[r].response = <<>>
               /\ DocsOf(store, r) = <<>>)
    /\ [][\A r \in Requests :
            (Ends(r) /\ req'[r].detail = "dispatch error")
            => /\ store' = store
               /\ Find(store', req[r].user_id) = Find(store, req[r].user_id)
               /\ req'[r].status = 500]_vars

\* a failed kickoff for a user whose log holds Messages
C2_Witness ==
    \E r \in Requests :
        /\ req[r].pc = "done" /\ req[r].detail = "dispatch error"
        /\ UserDocs(store, req[r].user_id) # <<>>

\* C3: for every exchange that is not in flight, the store holds its user
\* Message if and only if it holds its bot Message.
C3_PairAtomicity ==
    \A r \in Requests :
        req[r].pc # "pending"
        => (HasDoc(store, r, "user") <=> HasDoc(store, r, "bot"))

\* C4: a request answers 200 with the generated text only in a step after
\* which both Messages of its exchange are in the store; when the pair was
\* not written, after a successful kickoff or not, the request does not
\* answer 200; and every answer that is not 200 (the store write raised,
\* whatever it had written, or the kickoff failed) is 500 with a detail
\* and no response text.
C4_SuccessOnlyAfterPersist ==
    [][\A r \in Requests :
        Ends(r)
        => LET written == \E t \in BotTexts :
                            DocsOf(store', r)
                              = PairDocs(r, req[r].user_id, req[r].message, t)
           IN  /\ req'[r].status = 200
                    => /\ DocsOf(store', r)
                            = PairDocs(r, req[r].user_id, req[r].message,
                                       req'[r].response)
                       /\ req'[r].response = req'[r].bot_response
               /\ ~written => req'[r].status # 200
               /\ req'[r].status # 200
                    => /\ req'[r].status = 500
                       /\ req'[r].response = <<>>
                       /\ req'[r].detail # ""]_vars

\* two requests whose kickoff produced text and whose insert_many raised,
\* one before anything was written, one after both documents were
C4_Witness ==
    \E r1, r2 \in Requests :
        /\ req[r1].pc = "done" /\ req[r1].status = 500
        /\ req[r1].detail = "store error"
        /\ req[r1].response = <<>>
        /\ DocsOf(store, r1) = <<>>
        /\ req[r2].pc = "done" /\ req[r2].status = 500
        /\ req[r2].detail = "store error"
        /\ req[r2].response = <<>>
        /\ Len(DocsOf(store, r2)) = 2

----------------------------------------------------------------------------
(* Properties of the classification *)

\* The five categories in priority order, with the handler of each
Rules ==
    << [keywords |-> StudyKeywords, agent |-> "chatbot_agent",
        prefix |-> "Create a study schedule based on this request: ",
        expected_output |-> "A well-structured study plan."],
       [keywords |-> TaskKeywords, agent |-> "task_manager",
        prefix |-> "Check for pending assignments based on this request: ",
        expected_output |-> "A list of pending assignments."],
       [keywords |-> StressKeywords, agent |-> "stress_predictor",
        prefix |-> "Analyze workload and predict stress levels based on this request: ",
        expected_output |-> "A stress level assessment."],
       [keywords |-> TeacherKeywords, agent |-> "teacher_agent",
        prefix |-> "Explain this academic concept: ",
        expected_output |-> "A clear and concise explanation of the topic."],
       [keywords |-> MotivatorKeywords, agent |-> "motivator_agent",
        prefix |-> "Give an uplifting and positive message for this request: ",
        expected_output |-> "A motivating and cheerful response."] >>

Fallback ==
    [agent |-> "chatbot_agent",
     prefix |-> "Respond to this student query: ",
     expected_output |-> "A helpful response."]

\* the categories of which a keyword occurs in the lower-cased message
Matching(message) ==
    LET user_input == Lower(message)
    IN  { i \in 1..Len(Rules) : AnyKeyword(user_input, Rules[i].keywords) }

\* request r was routed to the handler h
RoutedTo(r, h) ==
    /\ req[r].agent = h.agent
    /\ req[r].description.prefix = h.prefix
    /\ req[r].expected_output = h.expected_output

\* C5: classification is first-match in the order study/plan,
\* assignment/deadline, stress/burnout, concept/explain, motivate/encourage:
\* a request is routed to the handler of the earliest category that has a
\* keyword occurring in the lower-cased message, whatever later categories
\* match as well.
C5_FirstMatchWins ==
    \A r \in Requests :
        LET matching == Matching(req[r].message)
        IN  (req[r].pc # "idle" /\ matching # {})
            => LET first == CHOOSE i \in matching : \A j \in matching : i <= j
               IN  RoutedTo(r, Rules[first])

\* a message written with capitals that matches both study/plan and
\* assignment/deadline and went to the study-plan handler
C5_Witness ==
    \E r \in Requests :
        /\ req[r].pc # "idle"
        /\ {1, 2} \subseteq Matching(req[r].message)
        /\ req[r].message # Lower(req[r].message)
        /\ RoutedTo(r, Rules[1])

\* C6: classification is total: every message, the empty one included,
\* selects exactly one of the agents and one work item that embeds the
\* message, and a message in which no keyword of the five categories occurs
\* selects the fallback handler with the 'Respond to this student query'
\* work item.
C6_TotalWithFallback ==
    \A r \in Requests :
        req[r].pc # "idle"
        => /\ req[r].agent \in Agents
           /\ req[r].description.message = req[r].message
           /\ \/ RoutedTo(r, Fallback)
              \/ \E i \in 1..Len(Rules) : RoutedTo(r, Rules[i])
           /\ Matching(req[r].message) = {} => RoutedTo(r, Fallback)

\* the empty message was classified and went to the fallback handler
C6_Witness ==
    \E r \in Requests :
        /\ req[r].pc # "idle"
        /\ req[r].message = <<>>
        /\ RoutedTo(r, Fallback)

----------------------------------------------------------------------------
(* Properties of clear and history *)

\* positions of the documents of user_id in s
Positions(s, user_id) == { i \in 1..Len(s) : s[i].user_id = user_id }

\* the k-th position of Positions(s, user_id), counted from the oldest
KthPosition(s, user_id, k) ==
    CHOOSE i \in Positions(s, user_id) :
        Cardinality({ j \in Positions(s, user_id) : j <= i }) = k

\* C7: a clear(u) that succeeds on a log of N Messages reports
\* deleted_count = N and leaves no document of u in the store; a history(u)
\* that succeeds while no document of u is in the store (which is the case
\* after a clear until an exchange of u is persisted) returns the empty
\* sequence.
C7_ClearRemovesAll ==
    [][/\ (lastOp'.op = "clear" /\ lastOp'.status = 200)
            => /\ lastOp'.deleted_count
                    = Cardinality(Positions(store, lastOp'.user_id))
               /\ Positions(store', lastOp'.user_id) = {}
       /\ (lastOp'.op = "history" /\ lastOp'.status = 200
              /\ Positions(store, lastOp'.user_id) = {})
            => lastOp'.messages = <<>>
       /\ (lastOp.op = "clear" /\ lastOp.status = 200
              /\ lastOp'.op = "history" /\ lastOp'.status = 200
              /\ lastOp'.user_id = lastOp.user_id)
            => lastOp'.messages = <<>>]_vars

\* a history call that returned nothing for a user whose exchange had been
\* persisted, so that a clear removed the pair, while documents of another
\* user stayed in the store
C7_Witness ==
    /\ lastOp.op = "history" /\ lastOp.status = 200
    /\ lastOp.messages = <<>>
    /\ store # <<>>
    /\ \E r \in Requests :
          /\ req[r].pc = "done" /\ req[r].status = 200
          /\ req[r].user_id = lastOp.user_id

\* C8: clear is idempotent: a clear(u) on a log without Messages changes
\* nothing in the store, fails only when the store call raises, and reports
\* deleted_count = 0; so a second clear(u) right after a successful one
\* leaves the store of the first and reports 0.
C8_ClearIdempotent ==
    [][/\ (lastOp'.op = "clear" /\ Positions(store, lastOp'.user_id) = {})
            => /\ store' = store
               /\ lastOp'.status # 200
                    => (lastOp'.status = 500 /\ lastOp'.detail = "store error")
               /\ lastOp'.status = 200 => lastOp'.deleted_count = 0
       /\ (lastOp.op = "clear" /\ lastOp.status = 200
              /\ lastOp'.op = "clear" /\ lastOp'.status = 200
              /\ lastOp'.user_id = lastOp.user_id)
            => (store' = store /\ lastOp'.deleted_count = 0)]_vars

\* a successful clear that found nothing for a user whose exchange had
\* been persisted, so that an earlier clear removed it
C8_Witness ==
    /\ lastOp.op = "clear" /\ lastOp.status = 200
    /\ lastOp.deleted_count = 0
    /\ \E r \in Requests :
          /\ req[r].pc = "done" /\ req[r].status = 200
          /\ req[r].user_id = lastOp.user_id

\* C9: history(u) changes nothing in the store, fails only when the store
\* call raises, and otherwise returns one Message per document of u in the
\* store, in the order in which the documents were inserted; for a user
\* without documents that is the empty sequence.
C9_HistoryIsTheLog ==
    [][lastOp'.op = "history"
        => LET u == lastOp'.user_id
               out == lastOp'.messages
           IN  /\ store' = store
               /\ req' = req
               /\ lastOp'.status # 200
                    => (lastOp'.status = 500 /\ lastOp'.detail = "store error")
               /\ lastOp'.status = 200
                    => /\ Len(out) = Cardinality(Positions(store, u))
                       /\ \A k \in 1..Len(out) :
                            LET d == store[KthPosition(store, u, k)]
                            IN  out[k] = Msg(u, d.role, d.text)]_vars

\* a history call that returned a whole pair while the store also held
\* documents of another user
C9_Witness ==
    /\ lastOp.op = "history" /\ lastOp.status = 200
    /\ Len(lastOp.messages) >= 2
    /\ Len(store) > Len(lastOp.messages)

\* C10: in every reachable state, whatever the interleaving of the
\* exchanges, the user Message of an exchange is before the bot Message of
\* the same exchange in the store.
C10_UserBeforeBot ==
    \A i, j \in 1..Len(store) :
        (store[i].ex = store[j].ex /\ store[i].role = "user"
            /\ store[j].role = "bot")
        => i < j

\* two exchanges of one user, both persisted, the one that arrived later
\* first: it started and ended while the earlier one was awaiting its kickoff
C10_Witness ==
    \E r1, r2 \in Requests :
        /\ r1 < r2
        /\ req[r1].user_id = req[r2].user_id
        /\ req[r1].status = 200 /\ req[r2].status = 200
        /\ Len(store) = 4
        /\ store[1].ex = r2 /\ store[3].ex = r1

----------------------------------------------------------------------------
(* Properties of cancellation, of the returned text and of the request's
   life cycle *)

\* C11: when the caller abandons a request while its kickoff is pending, no
\* Message of that exchange, user or bot, is in the store in any later state.
C11_AbandonedWritesNothing ==
    \A r \in Requests : req[r].abandoned => DocsOf(store, r) = <<>>


\* C12: for every exchange that ended in success, as long as its documents
\* are in the store, the bot Message that history returns for it carries the
\* text returned to the caller, and the user Message carries the message as
\* received, capitals included, not the lower-cased text used to classify.
C12_ReturnedTextIsPersisted ==
    /\ [](\A r \in Requests : \A i \in 1..Len(store) :
            (req[r].status = 200 /\ store[i].ex = r)
            => LET m == Find(<<store[i]>>, req[r].user_id)
               IN  /\ Len(m) = 1
                   /\ m[1].role = "user" => m[1].text = req[r].message
                   /\ m[1].role = "bot" => m[1].text = req[r].response)
    /\ [][\A r \in Requests :
            (Ends(r) /\ req'[r].status = 200)
            => LET after == Find(store', req[r].user_id)
                   n == Len(after)
               IN  /\ n >= 2
                   /\ after[n - 1].text = req[r].message
                   /\ after[n].text = req'[r].response
                   /\ req'[r].response \in BotTexts]_vars

\* two successful exchanges with different returned texts, one of a message
\* with capitals, both pairs in the store
C12_Witness ==
    \E r1, r2 \in Requests :
        /\ req[r1].status = 200 /\ req[r2].status = 200
        /\ req[r1].response # req[r2].response
        /\ req[r1].message # Lower(req[r1].message)
        /\ Len(DocsOf(store, r1)) = 2 /\ Len(DocsOf(store, r2)) = 2


\* the answer of a request that reached a terminal state
Succeeded(q) == q.status = 200 /\ q.response \in BotTexts /\ q.detail = ""

Failed(q) == q.status = 500 /\ q.response = <<>> /\ q.detail # ""

\* s is t with some documents removed
RECURSIVE IsSubSeq(_, _)
IsSubSeq(s, t) ==
    IF s = <<>> THEN TRUE
    ELSE IF t = <<>> THEN FALSE
    ELSE IF Head(s) = Head(t) THEN IsSubSeq(Tail(s), Tail(t))
    ELSE IsSubSeq(s, Tail(t))

\* C13: a request goes from received to dispatched (classified, its work
\* item built, the kickoff started) and from there to exactly one of
\* Succeeded or Failed: the kickoff is started at most once per request,
\* nothing of the request is in the store while it is not yet dispatched or
\* its dispatch is pending, and a request in a terminal state takes no
\* further step: its record stays and no document of it is written.
C13_RequestLifeCycle ==
    /\ [](\A r \in Requests :
            /\ req[r].pc \in {"idle", "pending", "done"}
            /\ req[r].kickoffs <= 1
            /\ req[r].pc = "idle"
                 => (req[r].kickoffs = 0 /\ req[r].status = 0)
            /\ req[r].pc = "pending"
                 => /\ req[r].kickoffs = 1
                    /\ req[r].status = 0
                    /\ req[r].agent \in Agents
                    /\ req[r].description.message = req[r].message
            /\ req[r].pc # "done" => DocsOf(store, r) = <<>>
            /\ req[r].pc = "done"
                 => /\ Succeeded(req[r]) \/ Failed(req[r])
                    /\ ~(Succeeded(req[r]) /\ Failed(req[r])))
    /\ [][\A r \in Requests :
            /\ req'[r].pc # req[r].pc
                 => \/ req[r].pc = "idle" /\ req'[r].pc = "pending"
                    \/ req[r].pc = "pending" /\ req'[r].pc = "done"
            /\ req[r].pc = "done"
                 => /\ req'[r] = req[r]
                    /\ \/ store' = store
                       \/ IsSubSeq(DocsOf(store', r), DocsOf(store, r))]_vars

\* one request failed at its single kickoff, the other succeeded after the
\* failure: both terminal, the failed one without documents
C13_Witness ==
    \E r1, r2 \in Requests :
        /\ req[r1].pc = "done" /\ Failed(req[r1])
        /\ req[r1].detail = "dispatch error" /\ req[r1].kickoffs = 1
        /\ req[r2].pc = "done" /\ Succeeded(req[r2])
        /\ req[r2].user_id = req[r1].user_id
        /\ DocsOf(store, r1) = <<>>
        /\ Len(DocsOf(store, r2)) = 2


----------------------------------------------------------------------------
(* Frame properties and independence of requests *)

\* s is the beginning of t
IsPrefix(s, t) == Len(s) <= Len(t) /\ SubSeq(t, 1, Len(s)) = s

\* the step ends a /chat request of user u
EndsFor(u) == \E r \in Requests : Ends(r) /\ req[r].user_id = u

\* the step is a clear of user u
ClearsFor(u) == lastOp'.op = "clear" /\ lastOp'.user_id = u

\* C14: a persisted Message is never modified and stays in the log of its
\* user u until a clear(u) runs: every step that is not a clear(u) keeps
\* the documents of u as they are and in their order, a step that ends an
\* exchange of u can only add documents after them, every other step
\* (exchanges of other users, history calls, clear(v) for v # u) leaves the
\* log of u exactly as it is, and a clear(u) only removes documents of u:
\* those it leaves are unmodified and in their order.
C14_MessagesStayUntilClear ==
    [][\/ store' = store
       \/ \A u \in Users :
            /\ ~ClearsFor(u)
                 => IsPrefix(UserDocs(store, u), UserDocs(store', u))
            /\ (~ClearsFor(u) /\ ~EndsFor(u))
                 => UserDocs(store', u) = UserDocs(store, u)
            /\ ClearsFor(u)
                 => IsSubSeq(UserDocs(store', u), UserDocs(store, u))]_vars

\* a clear that removed a pair of its user while the pair of the other user
\* stayed in the store
C14_Witness ==
    /\ lastOp.op = "clear" /\ lastOp.status = 200
    /\ lastOp.deleted_count = 2
    /\ \E r \in Requests :
          /\ req[r].status = 200
          /\ req[r].user_id # lastOp.user_id
          /\ UserDocs(store, req[r].user_id)
               = PairDocs(r, req[r].user_id, req[r].message, req[r].response)


\* the category of a message: the first one that matches, 0 for none
Category(message) ==
    LET matching == Matching(message)
    IN  IF matching = {} THEN 0
        ELSE CHOOSE i \in matching : \A j \in matching : i <= j

SameTemplate(r1, r2) ==
    /\ req[r1].expected_output = req[r2].expected_output
    /\ req[r1].description.prefix = req[r2].description.prefix

\* C15 as claimed: two requests routed to the same agent carry the same
\* expected-output descriptor and the same instruction template.
C15_SameAgentSameDescriptor ==
    \A r1, r2 \in Requests :
        (req[r1].pc # "idle" /\ req[r2].pc # "idle"
            /\ req[r1].agent = req[r2].agent)
        => SameTemplate(r1, r2)

\* C15 as amended: the expected-output descriptor and the instruction
\* template are a function of the matched category (the five categories and
\* the fallback): two requests of the same category carry the same agent,
\* descriptor and template, each with its own message embedded; two requests
\* routed to the same agent carry the same descriptor and template unless
\* the agent is chatbot_agent, which serves study/plan and the fallback.
C15_DescriptorPerCategory ==
    /\ \A r \in Requests :
          req[r].pc # "idle" => req[r].description.message = req[r].message
    /\ \A r1, r2 \in Requests :
          (r1 < r2 /\ req[r1].pc # "idle" /\ req[r2].pc # "idle")
          => /\ Category(req[r1].message) = Category(req[r2].message)
                  => (req[r1].agent = req[r2].agent /\ SameTemplate(r1, r2))
             /\ (req[r1].agent = req[r2].agent
                   /\ req[r1].agent # "chatbot_agent")
                  => SameTemplate(r1, r2)

\* two requests with different messages of the assignment/deadline category
\* that carry the same descriptor and template
C15_Witness ==
    \E r1, r2 \in Requests :
        /\ req[r1].pc # "idle" /\ req[r2].pc # "idle"
        /\ req[r1].message # req[r2].message
        /\ Lower(req[r1].message) # Lower(req[r2].message)
        /\ Category(req[r1].message) = 2 /\ Category(req[r2].message) = 2
        /\ req[r1].agent = "task_manager"
        /\ SameTemplate(r1, r2)
        /\ req[r1].description # req[r2].description


\* the handler of a message according to the categories
HandlerOf(message) ==
    LET category == Category(message)
    IN  IF category = 0 THEN Fallback ELSE Rules[category]

\* the handler of each message that the requests of Spec carry
HandlerOfChatMessage == [m \in ChatMessages |-> HandlerOf(m)]

\* C16: requests do not influence one another: whatever else is in flight,
\* the handler and work item of a request are those of its own message (so
\* two requests with the same message get the same ones), every document
\* written for a request carries its own user_id, its own message as user
\* text and its own returned text as bot text, and a step of an exchange of
\* user u leaves the log of every other user v as it is.
C16_RequestsIndependent ==
    /\ [](\A r \in Requests :
            req[r].pc # "idle"
            => /\ RoutedTo(r, HandlerOfChatMessage[req[r].message])
               /\ req[r].description.message = req[r].message
               /\ \A i \in 1..Len(store) :
                    store[i].ex = r
                    => /\ store[i].user_id = req[r].user_id
                       /\ store[i].role = "user"
                            => store[i].text = req[r].message
                       /\ (store[i].role = "bot" /\ req[r].status = 200)
                            => store[i].text = req[r].response)
    /\ [][\A r \in Requests :
            req'[r] # req[r]
            => \A v \in Users :
                 v # req'[r].user_id
                 => UserDocs(store', v) = UserDocs(store, v)]_vars

\* two requests of different users with different messages that were in
\* flight together, both persisted, the later one first; one of them went
\* to the assignment/deadline handler for a keyword that is in its message
\* only after lower-casing
C16_Witness ==
    \E r1, r2 \in Requests :
        /\ r1 < r2
        /\ req[r1].status = 200 /\ req[r2].status = 200
        /\ req[r1].user_id # req[r2].user_id
        /\ req[r1].message # req[r2].message
        /\ \E r \in {r1, r2} :
              /\ RoutedTo(r, Rules[2])
              /\ ~AnyKeyword(req[r].message, TaskKeywords)
        /\ Len(store) = 4
        /\ store[1].ex = r2 /\ store[3].ex = r1


\* C17: in every reachable state the log of every user has even length and
\* is a concatenation of adjacent [user, bot] pairs, each of one exchange.
C17_LogIsPairs ==
    \A u \in Users :
        LET log == UserDocs(store, u)
        IN  /\ Len(log) % 2 = 0
            /\ \A k \in 1..(Len(log) \div 2) :
                  /\ log[2 * k - 1].role = "user"
                  /\ log[2 * k].role = "bot"
                  /\ log[2 * k - 1].ex = log[2 * k].ex

\* C18: when every awaited kickoff and every store call comes back, every
\* request that was accepted reaches a terminal state, Succeeded or Failed,
\* whatever the other requests, clears and history calls do, and its answer,
\* once given, is never replaced by another.  A request leaves "pending"
\* only for "done", so that it ends is stated as: from some point on no
\* request is ever pending again.
C18_EveryRequestAnswers ==
    /\ <>[](\A r \in Requests :
               /\ req[r].pc # "pending"
               /\ req[r].pc = "done" => (Succeeded(req[r]) \/ Failed(req[r])))
    /\ [][\A r \in Requests :
            req[r].status # 0
            => /\ req'[r].status = req[r].status
               /\ req'[r].response = req[r].response
               /\ req'[r].detail = req[r].detail]_vars

\* every request was accepted and has answered, one with success and one
\* with failure
C18_Witness ==
    /\ \A r \in Requests : req[r].pc = "done"
    /\ \E r \in Requests : Succeeded(req[r])
    /\ \E r \in Requests : Failed(req[r])


----------------------------------------------------------------------------
(* The agents in use *)

\* C19: of the six agents the Adaptive Scheduler is never selected: every
\* request is dispatched to Study Assistant, Task Manager, Stress Predictor,
\* Teacher Bot or Motivator, and the Study Assistant is the agent both of a
\* message of the study/plan category and of a message that matches nothing.
C19_SchedulerNeverSelected ==
    \A r \in Requests :
        LET matching == Matching(req[r].message)
        IN  req[r].pc # "idle"
            => /\ req[r].agent \in DOMAIN AgentName
               /\ AgentName[req[r].agent]
                    \in {"Study Assistant", "Task Manager", "Stress Predictor",
                         "Teacher Bot", "Motivator"}
               /\ 1 \in matching
                    => AgentName[req[r].agent] = "Study Assistant"
               /\ matching = {}
                    => AgentName[req[r].agent] = "Study Assistant"
               /\ AgentName[req[r].agent] = "Study Assistant"
                    => (1 \in matching \/ matching = {})

\* a message that is not empty and matches nothing went to the Study
\* Assistant with the fallback work item
C19_Witness ==
    \E r \in Requests :
        /\ req[r].pc # "idle"
        /\ req[r].message # <<>>
        /\ req[r].message # Lower(req[r].message)
        /\ Matching(req[r].message) = {}
        /\ AgentName[req[r].agent] = "Study Assistant"
        /\ req[r].expected_output = "A helpful response."

====
